---- MODULE Spec2Model ----
(***************************************************************************)
(* A model of predict.py: the train/valid splitter, the random-forest      *)
(* feature ranking and selection, the training loop with checkpointing and *)
(* early stopping, and batched prediction.                                  *)
(*                                                                         *)
(* Python indices are 0-based and are kept 0-based as VALUES; they are     *)
(* stored in TLA+ sequences, which are 1-based, so a[i] of the source is   *)
(* a[i + 1] here.  Floating-point losses are exact rationals [num, den];   *)
(* den = 0 encodes the two non-finite values the loop can meet, inf (1/0)  *)
(* and nan (0/0).                                                          *)
(***************************************************************************)
EXTENDS Integers, Sequences, FiniteSets, TLC

VARIABLES
    \* ---- module-level script state, lines 177-191
    pc,              \* position of the script / of the function being run
    seed,            \* config['seed']
    valid_ratio,     \* config['valid_ratio'] as a rational [num, den]
    global_rng,      \* the process-wide RNG state set by same_seed
    data_set,        \* rows read from covid_train.csv
    train_set,       \* Subset.indices of the train part of random_split
    valid_set,       \* Subset.indices of the valid part of random_split
    train_data,      \* np.array(train_set)
    valid_data,      \* np.array(valid_set)
    calls,           \* how many times train_valid_split has returned
    \* ---- feature selection, lines 94-126 and 205-209
    test_data,       \* rows read from covid_test.csv (no target column)
    n_features,      \* the top-n count (the literal 20 of lines 94 and 124)
    importance,      \* rf.feature_importances_, one score per raw feature
    fi_sorted_idx,   \* sorted_idx inside feature_importance (before slicing)
    sorted_idx,      \* sorted_idx inside select_feat (the value returned)
    feat_idx,        \* feat_idx inside select_feat
    x_train, x_valid, x_test, y_train, y_valid,  \* what select_feat returns
    \* ---- trainer, lines 129-174
    n_epochs,        \* config['n_epochs']
    early_stop,      \* config['early_stop'], the patience
    train_batches,   \* number of batches train_loader yields per pass
    valid_batches,   \* number of batches valid_loader yields per pass
    epoch,           \* epochs completed (the loop index of the running one)
    best_loss,       \* best_loss
    step,            \* step
    early_stop_count,\* early_stop_count
    loss_record,     \* loss_record
    batch_i,         \* batches consumed of the loader being iterated
    mean_train_loss, \* mean_train_loss
    mean_valid_loss, \* mean_valid_loss
    theta,           \* the parameters of the model being trained
    ckpt,            \* the file at config['save_path']
    writer,          \* last event of each tag sent to the SummaryWriter
    valid_losses,    \* history: the losses line 159 computed in this epoch
    log,             \* history: per finished epoch, its loss and parameters
    saves,           \* history: torch.save calls of this run
    \* ---- prediction, lines 34-51 and 237-245
    batch_size,      \* config['batch_size']
    model2,          \* the parameters of the fresh model of line 242
    preds,           \* preds
    pred_csv         \* the lines of pred.csv

splitVars == <<seed, valid_ratio, global_rng, data_set, train_set, valid_set,
               train_data, valid_data, calls>>

selectVars == <<test_data, n_features, importance, fi_sorted_idx, sorted_idx,
                feat_idx, x_train, x_valid, x_test, y_train, y_valid>>

trainVars == <<n_epochs, early_stop, train_batches, valid_batches, epoch,
               best_loss, step, early_stop_count, loss_record, batch_i,
               mean_train_loss, mean_valid_loss, theta, ckpt, writer,
               valid_losses, log, saves>>

predictVars == <<batch_size, model2, preds, pred_csv>>

vars == <<pc, splitVars, selectVars, trainVars, predictVars>>

-----------------------------------------------------------------------------
\* Bounds of the model.
MaxRows   == 4      \* rows in the training csv
RatioDen  == 4      \* valid_ratio ranges over k / RatioDen, k in 0..RatioDen
MaxSeed   == 2      \* seeds 0..MaxSeed
RngMod    == 7      \* size of the modelled generator state space
MaxCalls  == 2      \* calls of train_valid_split that are followed
MaxFeat   == 3      \* raw feature columns F in 1..MaxFeat
MaxTopN   == 3      \* n_features in 1..MaxTopN
MaxScore  == 2      \* importance scores 0..MaxScore
MaxEpochs == 3      \* n_epochs in 1..MaxEpochs
MaxPatience == 2    \* early_stop in 1..MaxPatience
MaxBatches == 2     \* batches per loader pass in 1..MaxBatches
MaxLoss   == 1      \* finite batch losses 0..MaxLoss
MaxTheta  == 1      \* parameter vectors are indexed by 0..MaxTheta
MaxTest   == 3      \* rows in the test set, 1..MaxTest
MaxBatchSize == 3   \* batch_size in 1..MaxBatchSize
TestCols  == 2      \* selected feature columns of the test set

-----------------------------------------------------------------------------
\* Generic helpers on sequences.

Range(s) == {s[i] : i \in 1..Len(s)}

Min(a, b) == IF a <= b THEN a ELSE b

\* Python slice s[lo:hi] for 0 <= lo, hi (clipped to the length).
Slice(s, lo, hi) ==
    LET h == Min(hi, Len(s))
    IN  IF lo >= h THEN <<>> ELSE [i \in 1..(h - lo) |-> s[lo + i]]

\* s without its k-th element (1-based).
RemoveAt(s, k) == [i \in 1..(Len(s) - 1) |-> IF i < k THEN s[i] ELSE s[i + 1]]

\* range(n) as a sequence: <<0, ..., n-1>>.
Arange(n) == [i \in 1..n |-> i - 1]

-----------------------------------------------------------------------------
\* The rows of a csv file: row i (0-based) of a file with ncols columns.  Every
\* cell differs from every other cell of the same file, so a column of a
\* reduced matrix identifies the raw column it was taken from.
CsvRow(i, ncols) == [j \in 1..ncols |-> 10 * (i + 1) + j]

ReadCsv(nrows, ncols) == [i \in 1..nrows |-> CsvRow(i - 1, ncols)]

\* Columns of the training csv in the splitter's runs: 2 features + target.
SplitCols == 3

-----------------------------------------------------------------------------
\* Random number generation.  A generator is its state, an integer modulo
\* RngMod; every draw advances it.

Advance(g) == (3 * g + 1) % RngMod

\* torch.Generator().manual_seed(seed): a FRESH generator fixed by the seed.
manual_seed(s) == s % RngMod

\* torch.randperm(n, generator=g): a permutation of 0..n-1 that is a function
\* of the generator state (a Fisher-Yates draw sequence).
RECURSIVE Draw(_, _)
Draw(rest, g) ==
    IF rest = <<>> THEN <<>>
    ELSE LET k == (g % Len(rest)) + 1
         IN  <<rest[k]>> \o Draw(RemoveAt(rest, k), Advance(g))

randperm(n, g) == Draw(Arange(n), g)

\* The generator handed to random_split, line 30.  The ambient variant draws
\* from the process-wide generator instead of a fresh seeded one.
SplitGenerator_ambient(s, ambient) == ambient

SplitGenerator(s, ambient) == manual_seed(s)

-----------------------------------------------------------------------------
\* Values of the variables a run does not use.
IdleRanking ==
    /\ test_data = <<>> /\ n_features = 0
    /\ importance = <<>> /\ fi_sorted_idx = <<>> /\ sorted_idx = <<>>
    /\ feat_idx = <<>>
    /\ x_train = <<>> /\ x_valid = <<>>
    /\ y_train = <<>> /\ y_valid = <<>>

IdleSelect == IdleRanking /\ x_test = <<>>

IdleTrain ==
    /\ n_epochs = 0 /\ early_stop = 0
    /\ train_batches = 0 /\ valid_batches = 0
    /\ epoch = 0 /\ step = 0 /\ early_stop_count = 0 /\ batch_i = 0
    /\ best_loss = <<>> /\ loss_record = <<>>
    /\ mean_train_loss = <<>> /\ mean_valid_loss = <<>>
    /\ theta = <<>> /\ ckpt = <<>> /\ writer = <<>>
    /\ valid_losses = <<>> /\ log = <<>> /\ saves = 0

IdlePredict ==
    /\ batch_size = 0 /\ model2 = <<>> /\ preds = <<>> /\ pred_csv = <<>>

IdleSplit ==
    /\ seed = 0 /\ global_rng = 0
    /\ valid_ratio = [num |-> 0, den |-> 1]
    /\ data_set = <<>> /\ train_set = <<>> /\ valid_set = <<>>
    /\ calls = 0

-----------------------------------------------------------------------------
\* train_valid_split, lines 26-31.

\* int(valid_ratio * len(data_set)): truncation of the product (ratio >= 0).
valid_set_size(ratio, n) == (ratio.num * n) \div ratio.den

train_set_size(ratio, n) == n - valid_set_size(ratio, n)

\* random_split(data_set, [a, b], generator): one permutation of all indices,
\* cut after the first a of them.
random_split(n, lengths, g) ==
    LET indices == randperm(lengths[1] + lengths[2], g)
    IN  <<Slice(indices, 0, lengths[1]),
          Slice(indices, lengths[1], lengths[1] + lengths[2])>>

\* np.array(subset): the rows the subset's indices name, in subset order.
SubsetRows(ds, indices) == [i \in 1..Len(indices) |-> ds[indices[i] + 1]]

same_seed(s) == s % RngMod

InitSplit ==
    /\ pc = "script"
    /\ seed \in 0..MaxSeed
    /\ global_rng = same_seed(seed)
    /\ \E k \in 0..RatioDen : valid_ratio = [num |-> k, den |-> RatioDen]
    /\ \E n \in 0..MaxRows : data_set = ReadCsv(n, SplitCols)
    /\ train_set = <<>> /\ valid_set = <<>>
    /\ train_data = <<>> /\ valid_data = <<>>
    /\ calls = 0
    /\ IdleSelect /\ IdleTrain /\ IdlePredict

train_valid_split ==
    /\ pc \in {"script", "split"}
    /\ calls < MaxCalls
    /\ LET n     == Len(data_set)
           vsz   == valid_set_size(valid_ratio, n)
           tsz   == train_set_size(valid_ratio, n)
           parts == random_split(n, <<tsz, vsz>>,
                                 SplitGenerator(seed, global_rng))
       IN  /\ train_set' = parts[1]
           /\ valid_set' = parts[2]
           /\ train_data' = SubsetRows(data_set, parts[1])
           /\ valid_data' = SubsetRows(data_set, parts[2])
    /\ calls' = calls + 1
    /\ pc' = "split"
    /\ UNCHANGED <<seed, valid_ratio, global_rng, data_set, selectVars,
                   trainVars, predictVars>>

\* Any other consumer of the process-wide generator (loader shuffling, weight
\* initialisation) running between two calls of the splitter.
ambient_draw ==
    /\ pc \in {"script", "split"}
    /\ global_rng' = Advance(global_rng)
    /\ UNCHANGED <<pc, seed, valid_ratio, data_set, train_set, valid_set,
                   train_data, valid_data, calls, selectVars, trainVars,
                   predictVars>>

NextSplit == train_valid_split \/ ambient_draw

SpecSplit == InitSplit /\ [][NextSplit]_vars

-----------------------------------------------------------------------------
\* C4: after train_valid_split the train and valid index sets are disjoint,
\* together they are all N row indices with none repeated, |valid| is
\* floor(r * N) and |train| is N - |valid|, the returned arrays are exactly the
\* rows those indices name, and a further call with the same (data, r, seed)
\* returns the same partition.
IsFloor(q, num, den) == q * den <= num /\ num < (q + 1) * den

C4_Partition ==
    pc = "split" =>
        LET n == Len(data_set)
        IN  /\ Range(train_set) \cap Range(valid_set) = {}
            /\ Range(train_set) \cup Range(valid_set) = 0..(n - 1)
            /\ Len(train_set) + Len(valid_set) = n
            /\ IsFloor(Len(valid_set), valid_ratio.num * n, valid_ratio.den)
            /\ Len(train_set) = n - Len(valid_set)
            /\ Len(train_data) = Len(train_set)
            /\ Len(valid_data) = Len(valid_set)
            /\ \A i \in 1..Len(train_set) :
                   train_data[i] = CsvRow(train_set[i], SplitCols)
            /\ \A i \in 1..Len(valid_set) :
                   valid_data[i] = CsvRow(valid_set[i], SplitCols)

C4_SameAgain ==
    (pc = "split" /\ calls' = calls + 1) =>
        /\ train_set' = train_set /\ valid_set' = valid_set
        /\ train_data' = train_data /\ valid_data' = valid_data

C4_Split == [](C4_Partition) /\ [][C4_SameAgain]_vars

\* A second call has returned, the ambient generator has moved since
\* construction, and both parts are non-empty.
C4_Witness ==
    /\ pc = "split" /\ calls = 2
    /\ global_rng # same_seed(seed)
    /\ Len(train_set) >= 2 /\ Len(valid_set) >= 1

-----------------------------------------------------------------------------
\* feature_importance, lines 94-112, and select_feat, lines 115-126.

\* All orderings of 0..n-1.
Perms(n) ==
    {p \in [1..n -> 0..(n - 1)] : \A i, j \in 1..n : i # j => p[i] # p[j]}

\* importance.argsort(), line 110: the feature indices ordered by ascending
\* score.  numpy's default sort is not stable, so equal scores may come out in
\* any order: the result is one of a set.
argsort_descending(imp) ==
    {p \in Perms(Len(imp)) :
        \A i, j \in 1..Len(imp) : i < j => imp[p[i] + 1] >= imp[p[j] + 1]}

argsort(imp) ==
    {p \in Perms(Len(imp)) :
        \A i, j \in 1..Len(imp) : i < j => imp[p[i] + 1] <= imp[p[j] + 1]}

Reverse(s) == [i \in 1..Len(s) |-> s[Len(s) + 1 - i]]

\* Python slice s[-n:] for n >= 1: the last n entries, all of s when n > len.
LastN(s, n) == Slice(s, Len(s) - Min(n, Len(s)), Len(s))

\* line 112: sorted_idx[-n_features:] if n_features else sorted_idx[::-1]
feature_importance_return_first(sorted, n) ==
    IF n # 0 THEN Slice(sorted, 0, n) ELSE Reverse(sorted)

feature_importance_return(sorted, n) ==
    IF n # 0 THEN LastN(sorted, n) ELSE Reverse(sorted)

\* m[:, :-1] and m[:, -1]
DropLastCol(m) == [i \in 1..Len(m) |-> Slice(m[i], 0, Len(m[i]) - 1)]
LastCol(m) == [i \in 1..Len(m) |-> m[i][Len(m[i])]]

\* m[:, idx]: the columns idx names, in idx order, of every row.
TakeCols(m, idx) ==
    [i \in 1..Len(m) |-> [j \in 1..Len(idx) |-> m[i][idx[j] + 1]]]

\* line 124: feat_idx = sorted_idx[:20]
select_feat_idx(sorted, n) == Slice(sorted, 0, n)

\* Rows of the train csv that are in the train part (0, 1) and the valid part
\* (2) in the selector's runs, and the rows of the test csv.
SelTrainRows == 2
SelValidRows == 1
SelTestRows  == 2

InitSelect ==
    /\ pc = "select"
    /\ IdleSplit
    /\ n_features \in 1..MaxTopN
    /\ \E F \in 1..MaxFeat :
          /\ train_data = ReadCsv(SelTrainRows, F + 1)
          /\ valid_data = [i \in 1..SelValidRows |->
                              CsvRow(SelTrainRows + i - 1, F + 1)]
          /\ test_data = ReadCsv(SelTestRows, F)
    /\ importance = <<>> /\ fi_sorted_idx = <<>> /\ sorted_idx = <<>>
    /\ feat_idx = <<>>
    /\ x_train = <<>> /\ x_valid = <<>> /\ x_test = <<>>
    /\ y_train = <<>> /\ y_valid = <<>>
    /\ IdleTrain /\ IdlePredict

\* The number of raw feature columns.
NumFeat == Len(train_data[1]) - 1

\* lines 116-122: slice the targets off and call feature_importance, which
\* fits the forest (any score vector), sorts and returns its slice.
select_feat_rank ==
    /\ pc = "select"
    /\ y_train' = LastCol(train_data)
    /\ y_valid' = LastCol(valid_data)
    /\ \E imp \in [1..NumFeat -> 0..MaxScore] :
          /\ importance' = imp
          /\ \E s \in argsort(imp) :
                /\ fi_sorted_idx' = s
                /\ sorted_idx' = feature_importance_return(s, n_features)
    /\ pc' = "ranked"
    /\ UNCHANGED <<splitVars, test_data, n_features, feat_idx,
                   x_train, x_valid, x_test, trainVars, predictVars>>

\* lines 124-126: cut feat_idx and reduce the three matrices with it.
select_feat_reduce ==
    /\ pc = "ranked"
    /\ LET idx == select_feat_idx(sorted_idx, n_features)
       IN  /\ feat_idx' = idx
           /\ x_train' = TakeCols(DropLastCol(train_data), idx)
           /\ x_valid' = TakeCols(DropLastCol(valid_data), idx)
           /\ x_test'  = TakeCols(test_data, idx)
    /\ pc' = "selected"
    /\ UNCHANGED <<splitVars, test_data, n_features, importance,
                   fi_sorted_idx, sorted_idx, y_train, y_valid, trainVars,
                   predictVars>>

NextSelect == select_feat_rank \/ select_feat_reduce

SpecSelect == InitSelect /\ [][NextSelect]_vars

-----------------------------------------------------------------------------
\* The column of a matrix whose cells are the given raw column of the rows
\* first..first+Len-1 of a csv file with ncols columns.
IsRawColumn(m, j, raw, first, ncols) ==
    \A i \in 1..Len(m) : m[i][j] = CsvRow(first + i - 1, ncols)[raw + 1]

\* C5: for K <= F, select_feat reduces train, valid and test with one and the
\* same sequence of K column indices, in the same order, and that sequence is
\* the last K entries of the ascending ranking: the K most important features.
C5_SameTopK ==
    (pc = "selected" /\ n_features <= NumFeat) =>
        LET K   == n_features
            F   == NumFeat
            top == [j \in 1..K |-> fi_sorted_idx[F - K + j]]
        IN  /\ Len(fi_sorted_idx) = F
            /\ \A i \in 1..Len(x_train) : Len(x_train[i]) = K
            /\ \A i \in 1..Len(x_valid) : Len(x_valid[i]) = K
            /\ \A i \in 1..Len(x_test) : Len(x_test[i]) = K
            /\ Len(x_train) = SelTrainRows /\ Len(x_valid) = SelValidRows
            /\ Len(x_test) = SelTestRows
            /\ \A j \in 1..K :
                  /\ IsRawColumn(x_train, j, top[j], 0, F + 1)
                  /\ IsRawColumn(x_valid, j, top[j], SelTrainRows, F + 1)
                  /\ IsRawColumn(x_test, j, top[j], 0, F)
            /\ \A f \in 0..(F - 1) : \A j \in 1..K :
                  f \notin Range(top) => importance[f + 1] <= importance[top[j] + 1]

\* Fewer columns are kept than there are, and the scores differ.
C5_Witness ==
    /\ pc = "selected"
    /\ n_features = 2 /\ NumFeat = 3
    /\ importance[1] > importance[2] /\ importance[2] > importance[3]

C9_RejectsInvalid ==
    (pc \in {"select", "ranked", "selected"} /\ n_features > NumFeat) =>
        /\ pc # "selected"
        /\ x_train = <<>> /\ x_valid = <<>> /\ x_test = <<>>

-----------------------------------------------------------------------------
\* Floating-point losses.  A finite value is num/den with den > 0.

NaN == [num |-> 0, den |-> 0]

\* math.inf, the initial best_loss of line 135
Inf == [num |-> 1, den |-> 0]

IsNaN(a) == a.den = 0 /\ a.num = 0

IsFinite(a) == a.den # 0

\* a < b as the floating-point comparison decides it: false when either side
\* is nan, and every finite value is below inf.
Less(a, b) ==
    IF IsNaN(a) \/ IsNaN(b) THEN FALSE
    ELSE IF ~IsFinite(b) THEN IsFinite(a)
    ELSE IF ~IsFinite(a) THEN FALSE
    ELSE a.num * b.den < b.num * a.den

\* The two values print the same.
SameValue(a, b) ==
    IF IsFinite(a) /\ IsFinite(b) THEN a.num * b.den = b.num * a.den
    ELSE a = b

\* The values loss.item() can take for one batch.
LossValues == {[num |-> l, den |-> 1] : l \in 0..MaxLoss} \cup {NaN}

\* sum(loss_record): nan as soon as one entry is nan.
RECURSIVE SumLoss(_)
SumLoss(rec) ==
    IF rec = <<>> THEN [num |-> 0, den |-> 1]
    ELSE LET rest == SumLoss(Tail(rec))
         IN  IF IsNaN(Head(rec)) \/ IsNaN(rest) THEN NaN
             ELSE [num |-> Head(rec).num + rest.num, den |-> 1]

\* sum(loss_record) / len(loss_record), lines 151 and 161
MeanLoss(rec) ==
    LET t == SumLoss(rec)
    IN  IF IsNaN(t) THEN NaN ELSE [num |-> t.num, den |-> Len(rec)]

-----------------------------------------------------------------------------
\* My_model, lines 53-67, and its persistence.  A parameter vector is a weight
\* and a bias; the vectors the optimizer can reach are indexed by 0..MaxTheta.

ParamSpace == {[weight |-> w, bias |-> MaxTheta - w] : w \in 0..MaxTheta}

\* optimizer.step(), line 146: the gradient is zero and the parameters stay,
\* or they move to another vector.
optimizer_step(th) ==
    {th, [weight |-> (th.weight + 1) % (MaxTheta + 1),
          bias   |-> MaxTheta - ((th.weight + 1) % (MaxTheta + 1))]}

RECURSIVE RowSum(_)
RowSum(row) == IF row = <<>> THEN 0 ELSE Head(row) + RowSum(Tail(row))

\* forward on one row; squeeze(1) leaves one scalar per row.
Forward(th, row) == th.weight * RowSum(row) + th.bias

ForwardBatch(th, batch) == [i \in 1..Len(batch) |-> Forward(th, batch[i])]

\* model.state_dict(): the named tensors.
state_dict(th) == [layers_weight |-> th.weight, layers_bias |-> th.bias]

\* model.load_state_dict(sd) on a freshly initialised model, line 243: every
\* parameter is overwritten.  The partial variant keeps the fresh bias.
load_state_dict_partial(fresh, sd) ==
    [weight |-> sd.layers_weight, bias |-> fresh.bias]

load_state_dict(fresh, sd) ==
    [weight |-> sd.layers_weight, bias |-> sd.layers_bias]

-----------------------------------------------------------------------------
\* DataLoader(shuffle=False), line 237, predict, lines 34-43, and save_pred,
\* lines 45-51.

\* Consecutive batches of batch_size rows; the last may be shorter.  The
\* drop_last variant leaves an incomplete last batch out.
DataLoader_drop_last(ds, bs) ==
    [k \in 1..(Len(ds) \div bs) |-> Slice(ds, (k - 1) * bs, k * bs)]

DataLoader(ds, bs) ==
    [k \in 1..((Len(ds) + bs - 1) \div bs) |-> Slice(ds, (k - 1) * bs, k * bs)]

\* preds.append(model(x)) for every batch, then torch.cat(preds, dim=0)
RECURSIVE predict(_, _)
predict(loader, th) ==
    IF loader = <<>> THEN <<>>
    ELSE ForwardBatch(th, Head(loader)) \o predict(Tail(loader), th)

\* The lines csv.writer writes: the header, then "<i>,<p>" per prediction.
save_pred(ps) ==
    <<"id,tested_positive">> \o
    [i \in 1..Len(ps) |-> ToString(i - 1) \o "," \o ToString(ps[i])]

-----------------------------------------------------------------------------
\* trainer, lines 129-174.

\* line 164: mean_valid_loss < best_loss
Improves_or_equal(loss, best) == ~Less(best, loss) /\ ~IsNaN(loss)

Improves(loss, best) == Less(loss, best)

\* lines 164-166: the file at save_path after the comparison.  The eager
\* variant writes it in every epoch.
checkpoint_every_epoch(improved, th, old) == <<state_dict(th)>>

checkpoint_after(improved, th, old) ==
    IF improved THEN <<state_dict(th)>> ELSE old

\* line 172: early_stop_count >= config['early_stop']
ShouldStop_after(count, patience) == count > patience

ShouldStop(count, patience) == count >= patience

\* The file at save_path when trainer starts: none, or one an earlier run left.
SavePathAtStart == {<<>>, <<state_dict([weight |-> 0, bias |-> MaxTheta])>>}

InitTrain ==
    /\ pc = "train_loop"
    /\ IdleSplit /\ IdleRanking
    /\ train_data = <<>> /\ valid_data = <<>>
    /\ x_test = ReadCsv(MaxTest, TestCols)
    /\ batch_size = MaxBatchSize - 1
    /\ model2 = <<>> /\ preds = <<>> /\ pred_csv = <<>>
    /\ n_epochs \in 1..MaxEpochs
    /\ early_stop \in 1..MaxPatience
    /\ train_batches \in 1..MaxBatches
    /\ valid_batches \in 1..MaxBatches
    \* loaders of several batches are followed for one epoch
    /\ (train_batches + valid_batches = 2) \/ (n_epochs = 1)
    /\ epoch = 0 /\ step = 0 /\ early_stop_count = 0 /\ batch_i = 0
    /\ best_loss = Inf
    /\ loss_record = <<>>
    /\ mean_train_loss = <<>> /\ mean_valid_loss = <<>>
    /\ theta \in ParamSpace
    /\ ckpt \in SavePathAtStart
    /\ writer = [train |-> <<>>, valid |-> <<>>]
    /\ valid_losses = <<>> /\ log = <<>> /\ saves = 0

\* lines 140-150: one training batch; the loss may be any value.
train_batch ==
    /\ pc = "train_loop"
    /\ batch_i < train_batches
    /\ \E loss \in LossValues : loss_record' = Append(loss_record, loss)
    /\ \E th \in optimizer_step(theta) : theta' = th
    /\ step' = step + 1
    /\ batch_i' = batch_i + 1
    /\ UNCHANGED <<pc, splitVars, selectVars, predictVars, n_epochs,
                   early_stop, train_batches, valid_batches, epoch, best_loss,
                   early_stop_count, mean_train_loss, mean_valid_loss, ckpt,
                   writer, valid_losses, log, saves>>

\* lines 151-154: the train mean is emitted and validation begins.
train_done ==
    /\ pc = "train_loop"
    /\ batch_i = train_batches
    /\ mean_train_loss' = MeanLoss(loss_record)
    /\ writer' = [writer EXCEPT !.train = <<MeanLoss(loss_record), step>>]
    /\ valid_losses' = <<>>
    /\ batch_i' = 0
    /\ pc' = "valid_loop"
    /\ UNCHANGED <<splitVars, selectVars, predictVars, n_epochs, early_stop,
                   train_batches, valid_batches, epoch, best_loss, step,
                   early_stop_count, loss_record, mean_valid_loss, theta, ckpt,
                   log, saves>>

\* lines 155-160: one validation batch; no parameter changes.
valid_batch ==
    /\ pc = "valid_loop"
    /\ batch_i < valid_batches
    /\ \E loss \in LossValues :
          /\ loss_record' = Append(loss_record, loss)
          /\ valid_losses' = Append(valid_losses, loss)
    /\ batch_i' = batch_i + 1
    /\ UNCHANGED <<pc, splitVars, selectVars, predictVars, n_epochs,
                   early_stop, train_batches, valid_batches, epoch, best_loss,
                   step, early_stop_count, mean_train_loss, mean_valid_loss,
                   theta, ckpt, writer, log, saves>>

\* lines 161-174, then the loop head of lines 136-138: the valid mean is
\* emitted and compared, the checkpoint written on improvement, and the
\* function returns on patience or when range(n_epochs) is exhausted.
epoch_end ==
    /\ pc = "valid_loop"
    /\ batch_i = valid_batches
    /\ LET mvl      == MeanLoss(loss_record)
           improved == Improves(mvl, best_loss)
           count    == IF improved THEN 0 ELSE early_stop_count + 1
           return   == ShouldStop(count, early_stop) \/ epoch + 1 = n_epochs
       IN  /\ mean_valid_loss' = mvl
           /\ writer' = [writer EXCEPT !.valid = <<mvl, step>>]
           /\ best_loss' = IF improved THEN mvl ELSE best_loss
           /\ ckpt' = checkpoint_after(improved, theta, ckpt)
           /\ saves' = IF improved THEN saves + 1 ELSE saves
           /\ early_stop_count' = count
           /\ log' = Append(log, [loss |-> mvl, theta |-> theta])
           /\ pc' = IF return THEN "returned" ELSE "train_loop"
           /\ loss_record' = IF return THEN loss_record ELSE <<>>
    /\ epoch' = epoch + 1
    /\ batch_i' = 0
    /\ UNCHANGED <<splitVars, selectVars, predictVars, n_epochs, early_stop,
                   train_batches, valid_batches, step, mean_train_loss, theta,
                   valid_losses>>

-----------------------------------------------------------------------------
\* The script after trainer, lines 242-245.

\* lines 242-243: a fresh model (any initial parameters) takes the state dict
\* of the file; torch.load raises when there is no file.
load_checkpoint ==
    /\ pc = "returned"
    /\ IF ckpt = <<>>
       THEN /\ pc' = "load_failed"
            /\ model2' = model2
       ELSE /\ pc' = "loaded"
            /\ \E fresh \in ParamSpace :
                  model2' = load_state_dict(fresh, ckpt[1])
    /\ UNCHANGED <<splitVars, selectVars, trainVars, batch_size, preds,
                   pred_csv>>

\* line 244: preds = predict(test_loader, model, device)
run_predict ==
    /\ pc = "loaded"
    /\ preds' = predict(DataLoader(x_test, batch_size), model2)
    /\ pc' = "predicted"
    /\ UNCHANGED <<splitVars, selectVars, trainVars, batch_size, model2,
                   pred_csv>>

\* line 245: save_pred(preds, 'pred.csv')
run_save_pred ==
    /\ pc = "predicted"
    /\ pred_csv' = save_pred(preds)
    /\ pc' = "saved"
    /\ UNCHANGED <<splitVars, selectVars, trainVars, batch_size, model2,
                   preds>>

NextPredict == load_checkpoint \/ run_predict \/ run_save_pred

NextTrain ==
    \/ train_batch \/ train_done \/ valid_batch \/ epoch_end
    \/ load_checkpoint \/ run_predict \/ run_save_pred

SpecTrain == InitTrain /\ [][NextTrain]_vars

\* Prediction alone: trainer has returned in an earlier process and left any
\* checkpoint, or none.
InitPredict ==
    /\ pc = "returned"
    /\ IdleSplit /\ IdleRanking
    /\ train_data = <<>> /\ valid_data = <<>>
    /\ n_epochs = 0 /\ early_stop = 0
    /\ train_batches = 0 /\ valid_batches = 0
    /\ epoch = 0 /\ step = 0 /\ early_stop_count = 0 /\ batch_i = 0
    /\ best_loss = <<>> /\ loss_record = <<>>
    /\ mean_train_loss = <<>> /\ mean_valid_loss = <<>>
    /\ theta = <<>> /\ writer = <<>>
    /\ valid_losses = <<>> /\ log = <<>> /\ saves = 0
    /\ ckpt \in {<<>>} \cup {<<state_dict(th)>> : th \in ParamSpace}
    /\ \E m \in 1..MaxTest, c \in 1..TestCols : x_test = ReadCsv(m, c)
    /\ batch_size \in 1..MaxBatchSize
    /\ model2 = <<>> /\ preds = <<>> /\ pred_csv = <<>>

SpecPredict == InitPredict /\ [][NextPredict]_vars

-----------------------------------------------------------------------------
\* C7: predict over the unshuffled test loader returns exactly M predictions,
\* the i-th being the model's output for test row i, for every batch size
\* (also when M is no multiple of it), and save_pred writes the header and
\* then M lines "<i>,<prediction i>", i from 0, in input order.
C7_OrderedPredictions ==
    /\ pc \in {"predicted", "saved"} =>
          /\ Len(preds) = Len(x_test)
          /\ \A i \in 1..Len(x_test) : preds[i] = Forward(model2, x_test[i])
    /\ pc = "saved" =>
          /\ Len(pred_csv) = Len(x_test) + 1
          /\ pred_csv[1] = "id,tested_positive"
          /\ \A i \in 1..Len(x_test) :
                pred_csv[i + 1] =
                    ToString(i - 1) \o "," \o
                    ToString(Forward(model2, x_test[i]))

\* Three rows in batches of two have been predicted and written.
C7_Witness ==
    /\ pc = "saved"
    /\ Len(x_test) = 3 /\ batch_size = 2
    /\ model2.weight = 1
    /\ Len(pred_csv) = 4

-----------------------------------------------------------------------------
\* History of a run of trainer.

\* Epoch i improved: its loss is below every earlier (finite) loss, which is
\* what being below the running best means.
EpochImproved(i) ==
    /\ IsFinite(log[i].loss)
    /\ \A j \in 1..(i - 1) : IsFinite(log[j].loss) => Less(log[i].loss, log[j].loss)

Max(S) == CHOOSE x \in S : \A y \in S : y <= x

\* The last epoch that improved, 0 when none did.
LastImproved == Max({0} \cup {i \in 1..Len(log) : EpochImproved(i)})

\* The number of epochs since the last improvement.
TrailingStale == Len(log) - LastImproved

Running == pc \in {"train_loop", "valid_loop"}

\* Every epoch run so far had a finite loss.
AllFinite == \A i \in 1..Len(log) : IsFinite(log[i].loss)

\* C1: trainer halts after exactly `patience` consecutive non-improving
\* epochs or after n_epochs epochs, whichever comes first: while it runs the
\* consecutive-non-improving count is below patience and the epoch count below
\* n_epochs, and once it has returned one of the two has been reached.
C1_Halts ==
    /\ epoch = Len(log)
    /\ early_stop_count = TrailingStale
    /\ Running => (TrailingStale < early_stop /\ epoch < n_epochs)
    /\ ~Running => (TrailingStale = early_stop \/ epoch = n_epochs)

\* Stopped by patience with an epoch to spare, after an improvement.
C1_Witness ==
    /\ pc = "returned"
    /\ early_stop = 1 /\ early_stop_count = 1
    /\ epoch = 2 /\ n_epochs = 3 /\ saves = 1

\* C2: best_loss never increases, and at the end of an epoch the consecutive
\* counter is 0 if and only if the epoch's mean_valid_loss is strictly below
\* best_loss; otherwise it is one more than before.  Between epoch ends
\* neither changes.
C2_Step ==
    /\ ~Less(best_loss, best_loss')
    /\ IF epoch' = epoch + 1
       THEN /\ (early_stop_count' = 0) <=> Less(mean_valid_loss', best_loss)
            /\ ~Less(mean_valid_loss', best_loss) =>
                   early_stop_count' = early_stop_count + 1
            /\ Less(mean_valid_loss', best_loss) =>
                   best_loss' = mean_valid_loss'
       ELSE /\ early_stop_count' = early_stop_count
            /\ best_loss' = best_loss

C2_BestAndCounter == [][C2_Step]_vars

\* An epoch with a loss equal to the best has just been counted as stale.
C2_Witness ==
    /\ epoch = 2 /\ early_stop_count = 1
    /\ SameValue(mean_valid_loss, best_loss)

\* C3: the loss compared with best_loss and emitted as 'Loss/valid' is the
\* mean of the losses of this epoch's validation batches only (here for
\* epochs whose losses are all finite).
C3_ValidOnly ==
    (epoch >= 1 /\ pc \in {"train_loop", "returned"}
        /\ IsFinite(mean_valid_loss)) =>
        /\ SameValue(mean_valid_loss, MeanLoss(valid_losses))
        /\ SameValue(writer.valid[1], MeanLoss(valid_losses))

\* C8 as stated: the predictions of the loaded checkpoint are those of the
\* in-memory model as trainer left it (here for runs that wrote the
\* checkpoint themselves and met finite losses only).
C8_RoundTrip ==
    (pc = "predicted" /\ saves >= 1 /\ AllFinite) =>
        preds = predict(DataLoader(x_test, batch_size), theta)

\* C8 amended: the predictions of the loaded checkpoint are those of the
\* in-memory model as it was at the end of the last improving epoch of the
\* run; they are those of the model trainer left when that epoch was the last
\* one run.
C8_RoundTripOfBest ==
    (pc = "predicted" /\ LastImproved > 0) =>
        /\ preds = predict(DataLoader(x_test, batch_size),
                           log[LastImproved].theta)
        /\ LastImproved = Len(log) =>
               preds = predict(DataLoader(x_test, batch_size), theta)

\* The checkpoint of an earlier epoch was loaded while the in-memory model
\* had moved on.
C8_Witness ==
    /\ pc = "predicted"
    /\ LastImproved = 1 /\ Len(log) = 2
    /\ theta # log[1].theta

\* C10: after at least one epoch, all with finite losses, a checkpoint has
\* been written in this run and the file holds the parameters of the end of
\* the earliest epoch whose loss is the minimum of all epochs run.
EarliestMin ==
    CHOOSE i \in 1..Len(log) :
        /\ \A j \in 1..Len(log) : ~Less(log[j].loss, log[i].loss)
        /\ \A j \in 1..(i - 1) : Less(log[i].loss, log[j].loss)

C10_BestCheckpoint ==
    (epoch >= 1 /\ AllFinite) =>
        /\ saves >= 1
        /\ ckpt = <<state_dict(log[EarliestMin].theta)>>

\* A later epoch tied with the best one and the parameters had changed.
C10_Witness ==
    /\ pc = "returned" /\ AllFinite
    /\ Len(log) = 3 /\ EarliestMin = 2
    /\ SameValue(log[3].loss, log[2].loss)
    /\ log[3].theta # log[2].theta

====
